---------------------------- MODULE Spec2Model ----------------------------
(***************************************************************************)
(* A model of the CHIP-8 emulator of src/chip-8-emu-volai.py               *)
(* (class Chip8Emulator): the VM state, the handlers the Tk main loop runs *)
(* (_load_rom, _reset, _key_down, _key_up, _update_gui) and the emulation  *)
(* thread (_emulation_loop, _execute_cycle).                               *)
(***************************************************************************)
EXTENDS Integers, Sequences, FiniteSets, TLC

(***************************************************************************)
(* Program constants.                                                      *)
(***************************************************************************)
MEM_SIZE == 4096
PROG_START == 512
SCREEN_WIDTH == 64
SCREEN_HEIGHT == 32
NUM_REGS == 16
NUM_KEYS == 16
NO_WAIT == -1

FONTSET ==
  << 240, 144, 144, 144, 240,   32,  96,  32,  32, 112,
     240,  16, 240, 128, 240,  240,  16, 240,  16, 240,
     144, 144, 240,  16,  16,  240, 128, 240,  16, 240,
     240, 128, 240, 144, 240,  240,  16,  32,  64,  64,
     240, 144, 240, 144, 240,  240, 144, 240,  16, 240,
     240, 144, 240, 144, 144,  224, 144, 224, 144, 224,
     240, 128, 128, 128, 240,  224, 144, 144, 144, 224,
     240, 128, 240, 128, 240,  240, 128, 240, 128, 128 >>

\* KEY_MAP: the logical keys the sixteen bound keyboard keys produce.
KEY_MAP == 0 .. (NUM_KEYS - 1)

(***************************************************************************)
(* Bit operations on bytes (Python's &, |, ^ on values below 256).         *)
(***************************************************************************)
Bit(a, k) == (a \div (2 ^ k)) % 2

RECURSIVE BitAnd(_, _)
BitAnd(a, b) ==
  IF a = 0 \/ b = 0 THEN 0
  ELSE ((a % 2) * (b % 2)) + 2 * BitAnd(a \div 2, b \div 2)

RECURSIVE BitOr(_, _)
BitOr(a, b) ==
  IF a = 0 THEN b
  ELSE IF b = 0 THEN a
  ELSE (IF (a % 2) + (b % 2) > 0 THEN 1 ELSE 0) + 2 * BitOr(a \div 2, b \div 2)

RECURSIVE BitXor(_, _)
BitXor(a, b) ==
  IF a = 0 THEN b
  ELSE IF b = 0 THEN a
  ELSE (((a % 2) + (b % 2)) % 2) + 2 * BitXor(a \div 2, b \div 2)

BlankScreen == [p \in 0 .. (SCREEN_WIDTH * SCREEN_HEIGHT - 1) |-> 0]

(***************************************************************************)
(* The files the "Open ROM" dialog can return.  RomBytes(f) is the content *)
(* of file f, read by f.read(); "" is the cancelled dialog and             *)
(* UNREADABLE a path that open() fails on.                                 *)
(***************************************************************************)
CANCELLED == ""
UNREADABLE == "unreadable"

\* The value the model's program loads into both timers.
TimerStart == 1

\* LD V0,TimerStart; LD DT,V0; LD ST,V0; LD I,0x300; LD B,V0; LD V3,K; LD I,0;
\* DRW V3,V3,5; CLS; JP 0x212 (itself).
RomMain == << 96, TimerStart, 240, 21, 240, 24, 163, 0, 240, 51, 243, 10, 160, 0,
              211, 53, 0, 224, 18, 18 >>

\* 8008 (no opcode of the table); LD I,0xFFF; LD B,V0: the store reaches
\* past the end of memory.
RomCrash == << 128, 8, 175, 255, 240, 51 >>

\* n bytes of value b.
RECURSIVE Repeat(_, _)
Repeat(b, n) ==
  IF n = 0 THEN << >>
  ELSE IF n % 2 = 0 THEN LET half == Repeat(b, n \div 2) IN half \o half
  ELSE << b >> \o Repeat(b, n - 1)

\* One byte more than the program space holds.
RomBig == Repeat(171, MEM_SIZE - PROG_START + 1)

\* LD V3,K; DRW V3,V3,5 (I = 0: the glyph of 0); JP 0x200.
RomWait == << 243, 10, 211, 53, 18, 0 >>

RomBytes(f) ==
  CASE f = "main" -> RomMain
    [] f = "wait" -> RomWait
    [] f = "crash" -> RomCrash
    [] f = "big" -> RomBig
    [] OTHER -> << >>

ROM_FILES == {"main", "crash", "big"}

\* The keys the model presses, and the bytes random.randint(0, 255) returns.
PRESSED_KEYS == {7}
RANDOM_BYTES == {85, 255}

VARIABLES
  memory,          \* self.memory: 4096 bytes; address a is memory[a + 1]
  v,               \* self.v: V0..VF
  I,               \* self.i: the index register
  pc,              \* self.pc
  stack,           \* self.stack
  delay_timer,     \* self.delay_timer
  sound_timer,     \* self.sound_timer
  display_buffer,  \* self.display_buffer: 64*32 cells, row-major
  draw_flag,       \* self.draw_flag
  keys,            \* self.keys
  key_wait,        \* self.key_wait: the register awaiting a key, or -1
  running,         \* self.running
  rom_loaded,      \* self.rom_loaded
  canvas,          \* the fill of self.pixel_rects: what _draw_screen drew last
  title,           \* the window title: the file of the last successful load
  epc,             \* where the emulation thread is in _emulation_loop
  opcode,          \* _execute_cycle's local: the opcode fetched, in flight
  gpc,             \* where the GUI thread is in the handler it runs
  filepath,        \* _load_rom's local: the file being loaded
  load_i           \* _load_rom's local: the index of the copy loop

vm_vars == << memory, v, I, pc, stack, delay_timer, sound_timer,
              display_buffer, draw_flag, keys, key_wait, running >>
vars == << memory, v, I, pc, stack, delay_timer, sound_timer,
           display_buffer, draw_flag, keys, key_wait, running,
           rom_loaded, canvas, title, epc, opcode, gpc, filepath, load_i >>
emu_locals == << epc, opcode >>
gui_locals == << gpc, filepath, load_i >>

(***************************************************************************)
(* The fields _execute_cycle reads and writes, as one record; err is set   *)
(* when a statement raised (an IndexError), which ends the thread.         *)
(***************************************************************************)
VM ==
  [ memory |-> memory, v |-> v, I |-> I, pc |-> pc, stack |-> stack,
    delay_timer |-> delay_timer, sound_timer |-> sound_timer,
    display_buffer |-> display_buffer, draw_flag |-> draw_flag,
    keys |-> keys, key_wait |-> key_wait, running |-> running,
    opcode |-> opcode, err |-> FALSE ]

Commit(s) ==
  /\ memory' = s.memory
  /\ v' = s.v
  /\ I' = s.I
  /\ pc' = s.pc
  /\ stack' = s.stack
  /\ delay_timer' = s.delay_timer
  /\ sound_timer' = s.sound_timer
  /\ display_buffer' = s.display_buffer
  /\ draw_flag' = s.draw_flag
  /\ keys' = s.keys
  /\ key_wait' = s.key_wait
  /\ running' = s.running

\* __init__: the state after construction (the font loaded, no ROM).
LoadFontset == FONTSET \o Repeat(0, MEM_SIZE - Len(FONTSET))

Init ==
  /\ memory = LoadFontset
  /\ v = [r \in 0 .. (NUM_REGS - 1) |-> 0]
  /\ I = 0
  /\ pc = PROG_START
  /\ stack = << >>
  /\ delay_timer = 0
  /\ sound_timer = 0
  /\ display_buffer = BlankScreen
  /\ draw_flag = FALSE
  /\ keys = [k \in 0 .. (NUM_KEYS - 1) |-> 0]
  /\ key_wait = NO_WAIT
  /\ running = FALSE
  /\ rom_loaded = FALSE
  /\ canvas = BlankScreen
  /\ title = ""
  /\ epc = "loop"
  /\ opcode = 0
  /\ gpc = "idle"
  /\ filepath = CANCELLED
  /\ load_i = 0

(***************************************************************************)
(* _execute_cycle.  Fetch is its first two statements; Execute is the      *)
(* decode and the opcode's branch, applied to the state Fetch left.        *)
(***************************************************************************)
Raise(s) == [s EXCEPT !.err = TRUE]

\* memory[a]: the bytearray is kept as the sequence of its bytes.
Byte(mem, a) == mem[a + 1]

\* opcode = (memory[pc] << 8) | memory[pc + 1]; pc += 2
Fetch(s) ==
  IF s.pc + 1 >= MEM_SIZE
    THEN Raise(s)
    ELSE [s EXCEPT !.opcode = Byte(s.memory, s.pc) * 256
                                + Byte(s.memory, s.pc + 1),
                   !.pc = s.pc + 2]

OpX(op) == (op \div 256) % 16
OpY(op) == (op \div 16) % 16
OpN(op) == op % 16
OpKK(op) == op % 256
OpNNN(op) == op % 4096
OpType(op) == op \div 4096

Skip(s, cond) == IF cond THEN [s EXCEPT !.pc = s.pc + 2] ELSE s

\* 00EE popping whether or not the stack holds an entry.
Exec0PopAlways(s, op) ==
  IF op = \h00E0
    THEN [s EXCEPT !.display_buffer = BlankScreen, !.draw_flag = TRUE]
  ELSE IF op = \h00EE
    THEN IF s.stack # << >>
           THEN [s EXCEPT !.pc = s.stack[Len(s.stack)],
                          !.stack = SubSeq(s.stack, 1, Len(s.stack) - 1)]
           ELSE Raise(s)
  ELSE s

\* 00EE popping the oldest entry.
Exec0Fifo(s, op) ==
  IF op = \h00E0
    THEN [s EXCEPT !.display_buffer = BlankScreen, !.draw_flag = TRUE]
  ELSE IF op = \h00EE
    THEN IF s.stack # << >>
           THEN [s EXCEPT !.pc = s.stack[1],
                          !.stack = SubSeq(s.stack, 2, Len(s.stack))]
           ELSE s
  ELSE s

\* 00E0 and 00EE; any other 0nnn falls through.
Exec0(s, op) ==
  IF op = \h00E0
    THEN [s EXCEPT !.display_buffer = BlankScreen, !.draw_flag = TRUE]
  ELSE IF op = \h00EE
    THEN IF s.stack # << >>
           THEN [s EXCEPT !.pc = s.stack[Len(s.stack)],
                          !.stack = SubSeq(s.stack, 1, Len(s.stack) - 1)]
           ELSE s
  ELSE s

\* 8xy4 with the sum read after the flag is written.
Add8FlagFirst(s, x, y) ==
  LET v1 == [s.v EXCEPT ![15] = IF s.v[x] + s.v[y] > 255 THEN 1 ELSE 0]
  IN  [s EXCEPT !.v = [v1 EXCEPT ![x] = (v1[x] + v1[y]) % 256]]

\* 8xy4: result = v[x] + v[y]; v[F] = carry; v[x] = result & 0xFF
Add8(s, x, y) ==
  LET result == s.v[x] + s.v[y]
      v1 == [s.v EXCEPT ![15] = IF result > 255 THEN 1 ELSE 0]
  IN  [s EXCEPT !.v = [v1 EXCEPT ![x] = result % 256]]

\* 8xy5: v[F] = (v[x] > v[y]); v[x] = (v[x] - v[y]) & 0xFF, read after the
\* flag was written.
Sub8(s, x, y) ==
  LET v1 == [s.v EXCEPT ![15] = IF s.v[x] > s.v[y] THEN 1 ELSE 0]
  IN  [s EXCEPT !.v = [v1 EXCEPT ![x] = (v1[x] - v1[y]) % 256]]

\* 8xy6: v[F] = v[x] & 1; v[x] >>= 1
Shr8(s, x) ==
  LET v1 == [s.v EXCEPT ![15] = s.v[x] % 2]
  IN  [s EXCEPT !.v = [v1 EXCEPT ![x] = v1[x] \div 2]]

\* 8xy7: v[F] = (v[y] > v[x]); v[x] = (v[y] - v[x]) & 0xFF
Subn8(s, x, y) ==
  LET v1 == [s.v EXCEPT ![15] = IF s.v[y] > s.v[x] THEN 1 ELSE 0]
  IN  [s EXCEPT !.v = [v1 EXCEPT ![x] = (v1[y] - v1[x]) % 256]]

\* 8xyE: v[F] = (v[x] & 0x80) >> 7; v[x] = (v[x] << 1) & 0xFF
Shl8(s, x) ==
  LET v1 == [s.v EXCEPT ![15] = s.v[x] \div 128]
  IN  [s EXCEPT !.v = [v1 EXCEPT ![x] = (v1[x] * 2) % 256]]

Exec8(s, op) ==
  LET x == OpX(op)
      y == OpY(op)
      sub == OpN(op)
  IN  IF sub = 0 THEN [s EXCEPT !.v[x] = s.v[y]]
      ELSE IF sub = 1 THEN [s EXCEPT !.v[x] = BitOr(s.v[x], s.v[y])]
      ELSE IF sub = 2 THEN [s EXCEPT !.v[x] = BitAnd(s.v[x], s.v[y])]
      ELSE IF sub = 3 THEN [s EXCEPT !.v[x] = BitXor(s.v[x], s.v[y])]
      ELSE IF sub = 4 THEN Add8(s, x, y)
      ELSE IF sub = 5 THEN Sub8(s, x, y)
      ELSE IF sub = 6 THEN Shr8(s, x)
      ELSE IF sub = 7 THEN Subn8(s, x, y)
      ELSE IF sub = 14 THEN Shl8(s, x)
      ELSE s

(***************************************************************************)
(* Dxyn.  DrawCols is the inner loop over col of one sprite row, DrawRows  *)
(* the outer loop over row; a sprite byte beyond the end of memory raises  *)
(* before the row is drawn and before draw_flag is set.                    *)
(***************************************************************************)
\* The inner loop with a column past the right edge wrapped to the left.
RECURSIVE DrawColsWrap(_, _, _, _, _)
DrawColsWrap(s, sprite_byte, start_x, pixel_y, col) ==
  IF col >= 8 THEN s
  ELSE LET pixel_x == (start_x + col) % SCREEN_WIDTH
           index == pixel_x + pixel_y * SCREEN_WIDTH
       IN  IF Bit(sprite_byte, 7 - col) # 0
             THEN DrawColsWrap(
                    [s EXCEPT !.v[15] = IF s.display_buffer[index] = 1
                                          THEN 1 ELSE @,
                              !.display_buffer[index] = 1 - @],
                    sprite_byte, start_x, pixel_y, col + 1)
           ELSE DrawColsWrap(s, sprite_byte, start_x, pixel_y, col + 1)

RECURSIVE DrawCols(_, _, _, _, _)
DrawCols(s, sprite_byte, start_x, pixel_y, col) ==
  IF col >= 8 THEN s
  ELSE LET pixel_x == start_x + col
           index == pixel_x + pixel_y * SCREEN_WIDTH
       IN  IF pixel_x >= SCREEN_WIDTH
             THEN DrawCols(s, sprite_byte, start_x, pixel_y, col + 1)
           ELSE IF Bit(sprite_byte, 7 - col) # 0
             THEN DrawCols(
                    [s EXCEPT !.v[15] = IF s.display_buffer[index] = 1
                                          THEN 1 ELSE @,
                              !.display_buffer[index] = 1 - @],
                    sprite_byte, start_x, pixel_y, col + 1)
           ELSE DrawCols(s, sprite_byte, start_x, pixel_y, col + 1)

RECURSIVE DrawRows(_, _, _, _, _)
DrawRows(s, start_x, start_y, n, row) ==
  IF row >= n THEN s
  ELSE IF s.I + row >= MEM_SIZE THEN Raise(s)
  ELSE LET pixel_y == start_y + row
       IN  IF pixel_y >= SCREEN_HEIGHT
             THEN DrawRows(s, start_x, start_y, n, row + 1)
             ELSE DrawRows(DrawCols(s, Byte(s.memory, s.I + row), start_x,
                                    pixel_y, 0),
                           start_x, start_y, n, row + 1)

\* Dxyn that reports no collision.
DrawNoCollision(s, op) ==
  LET s0 == [s EXCEPT !.v[15] = 0]
      start_x == s0.v[OpX(op)] % SCREEN_WIDTH
      start_y == s0.v[OpY(op)] % SCREEN_HEIGHT
      drawn == DrawRows(s0, start_x, start_y, OpN(op), 0)
  IN  IF drawn.err THEN drawn
      ELSE [drawn EXCEPT !.draw_flag = TRUE, !.v[15] = 0]

Draw(s, op) ==
  LET s0 == [s EXCEPT !.v[15] = 0]
      start_x == s0.v[OpX(op)] % SCREEN_WIDTH
      start_y == s0.v[OpY(op)] % SCREEN_HEIGHT
      drawn == DrawRows(s0, start_x, start_y, OpN(op), 0)
  IN  IF drawn.err THEN drawn ELSE [drawn EXCEPT !.draw_flag = TRUE]

\* Ex9E and ExA1: keys[v[x]] raises when v[x] is no key index.
ExecE(s, op) ==
  LET x == OpX(op)
      sub == OpKK(op)
  IN  IF sub = \h9E
        THEN IF s.v[x] >= NUM_KEYS THEN Raise(s)
             ELSE Skip(s, s.keys[s.v[x]] = 1)
      ELSE IF sub = \hA1
        THEN IF s.v[x] >= NUM_KEYS THEN Raise(s)
             ELSE Skip(s, s.keys[s.v[x]] = 0)
      ELSE s

\* Fx33: the three stores, each raising when its address is past memory.
StoreBcd(s, x) ==
  LET val == s.v[x]
      s1 == IF s.I >= MEM_SIZE THEN Raise(s)
            ELSE [s EXCEPT !.memory[s.I + 1] = val \div 100]
      s2 == IF s1.err \/ s.I + 1 >= MEM_SIZE THEN Raise(s1)
            ELSE [s1 EXCEPT !.memory[s.I + 2] = (val % 100) \div 10]
  IN  IF s2.err \/ s.I + 2 >= MEM_SIZE THEN Raise(s2)
      ELSE [s2 EXCEPT !.memory[s.I + 3] = val % 10]

\* Fx55: for j in range(x + 1): memory[i + j] = v[j]
RECURSIVE StoreRegs(_, _, _)
StoreRegs(s, x, j) ==
  IF j > x THEN s
  ELSE IF s.I + j >= MEM_SIZE THEN Raise(s)
  ELSE StoreRegs([s EXCEPT !.memory[s.I + j + 1] = s.v[j]], x, j + 1)

\* Fx65: for j in range(x + 1): v[j] = memory[i + j]
RECURSIVE LoadRegs(_, _, _)
LoadRegs(s, x, j) ==
  IF j > x THEN s
  ELSE IF s.I + j >= MEM_SIZE THEN Raise(s)
  ELSE LoadRegs([s EXCEPT !.v[j] = Byte(s.memory, s.I + j)], x, j + 1)

\* Fx0A: key_wait = x; running = False
WaitKey(s, x) == [s EXCEPT !.key_wait = x, !.running = FALSE]

ExecF(s, op) ==
  LET x == OpX(op)
      sub == OpKK(op)
  IN  IF sub = \h07 THEN [s EXCEPT !.v[x] = s.delay_timer]
      ELSE IF sub = \h0A THEN WaitKey(s, x)
      ELSE IF sub = \h15 THEN [s EXCEPT !.delay_timer = s.v[x]]
      ELSE IF sub = \h18 THEN [s EXCEPT !.sound_timer = s.v[x]]
      ELSE IF sub = \h1E THEN [s EXCEPT !.I = s.I + s.v[x]]
      ELSE IF sub = \h29 THEN [s EXCEPT !.I = s.v[x] * 5]
      ELSE IF sub = \h33 THEN StoreBcd(s, x)
      ELSE IF sub = \h55 THEN StoreRegs(s, x, 0)
      ELSE IF sub = \h65 THEN LoadRegs(s, x, 0)
      ELSE s

\* The dispatch on the top nibble; rnd is what random.randint returns.
Execute(s, rnd) ==
  LET op == s.opcode
      x == OpX(op)
      y == OpY(op)
      kk == OpKK(op)
      nnn == OpNNN(op)
      t == OpType(op)
  IN  IF t = 0 THEN Exec0(s, op)
      ELSE IF t = 1 THEN [s EXCEPT !.pc = nnn]
      ELSE IF t = 2 THEN [s EXCEPT !.stack = Append(s.stack, s.pc), !.pc = nnn]
      ELSE IF t = 3 THEN Skip(s, s.v[x] = kk)
      ELSE IF t = 4 THEN Skip(s, s.v[x] # kk)
      ELSE IF t = 5 THEN Skip(s, s.v[x] = s.v[y])
      ELSE IF t = 6 THEN [s EXCEPT !.v[x] = kk]
      ELSE IF t = 7 THEN [s EXCEPT !.v[x] = (s.v[x] + kk) % 256]
      ELSE IF t = 8 THEN Exec8(s, op)
      ELSE IF t = 9 THEN Skip(s, s.v[x] # s.v[y])
      ELSE IF t = 10 THEN [s EXCEPT !.I = nnn]
      ELSE IF t = 11 THEN [s EXCEPT !.pc = nnn + s.v[0]]
      ELSE IF t = 12 THEN [s EXCEPT !.v[x] = BitAnd(rnd, kk)]
      ELSE IF t = 13 THEN Draw(s, op)
      ELSE IF t = 14 THEN ExecE(s, op)
      ELSE ExecF(s, op)

\* A whole _execute_cycle: a fetch that raises executes nothing.
ExecuteCycleOf(s, rnd) ==
  LET f == Fetch(s) IN IF f.err THEN f ELSE Execute(f, rnd)

(***************************************************************************)
(* The handlers of the GUI thread, each run to completion by the Tk main   *)
(* loop.                                                                   *)
(***************************************************************************)
\* _reset, its first eight assignments.
ResetRegs ==
  /\ v' = [r \in 0 .. (NUM_REGS - 1) |-> 0]
  /\ I' = 0
  /\ pc' = PROG_START
  /\ stack' = << >>
  /\ delay_timer' = 0
  /\ sound_timer' = 0
  /\ keys' = [k \in 0 .. (NUM_KEYS - 1) |-> 0]
  /\ key_wait' = NO_WAIT

\* _reset ending in running = True.
ResetScreenRuns ==
  /\ display_buffer' = BlankScreen
  /\ draw_flag' = TRUE
  /\ running' = TRUE

\* _reset, the rest: the display, draw_flag, running = rom_loaded.
ResetScreen ==
  /\ display_buffer' = BlankScreen
  /\ draw_flag' = TRUE
  /\ running' = rom_loaded

Reset ==
  /\ gpc = "idle"
  /\ ResetRegs
  /\ ResetScreen
  /\ UNCHANGED << memory, rom_loaded, canvas, title, emu_locals, gui_locals >>

\* The copy loop of _load_rom: byte k of the file goes to 0x200 + k while
\* that address is in memory; the first byte that is not raises.
RomFits(rom_data) == PROG_START + Len(rom_data) <= MEM_SIZE

\* The bytes the loop has written when it ends: all of them, or those
\* that fit when it raises.
Written(rom_data) ==
  IF RomFits(rom_data) THEN rom_data
  ELSE SubSeq(rom_data, 1, MEM_SIZE - PROG_START)

\* The copy loop starting one address late.
CopyRomLate(mem, rom_data) ==
  SubSeq(mem, 1, PROG_START + 1)
    \o SubSeq(rom_data, 1, Len(Written(rom_data)) - 1)
    \o SubSeq(mem, PROG_START + Len(Written(rom_data)) + 1, MEM_SIZE)

CopyRom(mem, rom_data) ==
  SubSeq(mem, 1, PROG_START)
    \o Written(rom_data)
    \o SubSeq(mem, PROG_START + Len(Written(rom_data)) + 1, MEM_SIZE)

\* _load_rom with the dialog returning f.
LoadRom(f) ==
  /\ gpc = "idle"
  /\ IF f = CANCELLED
       THEN UNCHANGED << vm_vars, rom_loaded, title >>
     ELSE IF f = UNREADABLE
       THEN /\ running' = FALSE
            /\ rom_loaded' = FALSE
            /\ UNCHANGED << memory, v, I, pc, stack, delay_timer, sound_timer,
                            display_buffer, draw_flag, keys, key_wait, title >>
     ELSE /\ ResetRegs
          /\ display_buffer' = BlankScreen
          /\ draw_flag' = TRUE
          /\ memory' = CopyRom(memory, RomBytes(f))
          /\ LET fits == RomFits(RomBytes(f))
             IN  /\ rom_loaded' = fits
                 /\ running' = fits
                 /\ title' = IF fits THEN f ELSE title
  /\ UNCHANGED << canvas, emu_locals, gui_locals >>

\* _key_down for a key KEY_MAP maps to k.
KeyDown(k) ==
  /\ gpc = "idle"
  /\ keys' = [keys EXCEPT ![k] = 1]
  /\ IF key_wait # NO_WAIT
       THEN /\ v' = [v EXCEPT ![key_wait] = k]
            /\ key_wait' = NO_WAIT
            /\ running' = TRUE
       ELSE UNCHANGED << v, key_wait, running >>
  /\ UNCHANGED << memory, I, pc, stack, delay_timer, sound_timer,
                  display_buffer, draw_flag, rom_loaded, canvas, title,
                  emu_locals, gui_locals >>

\* _key_up
KeyUp(k) ==
  /\ gpc = "idle"
  /\ keys' = [keys EXCEPT ![k] = 0]
  /\ UNCHANGED << memory, v, I, pc, stack, delay_timer, sound_timer,
                  display_buffer, draw_flag, key_wait, running, rom_loaded,
                  canvas, title, emu_locals, gui_locals >>

\* _draw_screen: every rectangle gets the colour of its pixel.
DrawScreen == [p \in DOMAIN display_buffer |->
                 IF display_buffer[p] # 0 THEN 1 ELSE 0]

\* _update_gui, every 16 ms.
UpdateGui ==
  /\ gpc = "idle"
  /\ IF draw_flag
       THEN canvas' = DrawScreen /\ draw_flag' = FALSE
       ELSE UNCHANGED << canvas, draw_flag >>
  /\ UNCHANGED << memory, v, I, pc, stack, delay_timer, sound_timer,
                  display_buffer, keys, key_wait, running, rom_loaded,
                  title, emu_locals, gui_locals >>

(***************************************************************************)
(* The emulation thread, one pass of the while loop of _emulation_loop:    *)
(* the test of self.running, the cycle (when its interval has elapsed),    *)
(* the timers (when theirs has).                                           *)
(***************************************************************************)
LoopCheck ==
  /\ epc = "loop"
  /\ epc' = IF running THEN "cycle" ELSE "loop"
  /\ UNCHANGED << vm_vars, rom_loaded, canvas, title, opcode, gui_locals >>

CycleSkip ==
  /\ epc = "cycle"
  /\ epc' = "timers"
  /\ UNCHANGED << vm_vars, rom_loaded, canvas, title, opcode, gui_locals >>

ExecuteCycle ==
  /\ epc = "cycle"
  /\ \E rnd \in RANDOM_BYTES :
       LET s == ExecuteCycleOf(VM, rnd)
       IN  /\ Commit(s)
           /\ epc' = IF s.err THEN "dead" ELSE "timers"
  /\ UNCHANGED << rom_loaded, canvas, title, opcode, gui_locals >>

TimerSkip ==
  /\ epc = "timers"
  /\ epc' = "loop"
  /\ UNCHANGED << vm_vars, rom_loaded, canvas, title, opcode, gui_locals >>

TickTimers ==
  /\ delay_timer' = IF delay_timer > 0 THEN delay_timer - 1 ELSE delay_timer
  /\ sound_timer' = IF sound_timer > 0 THEN sound_timer - 1 ELSE sound_timer

TimerUpdate ==
  /\ epc = "timers"
  /\ TickTimers
  /\ epc' = "loop"
  /\ UNCHANGED << memory, v, I, pc, stack, display_buffer, draw_flag, keys,
                  key_wait, running, rom_loaded, canvas, title, opcode,
                  gui_locals >>

GuiNext ==
  \/ \E f \in ROM_FILES \cup {CANCELLED, UNREADABLE} : LoadRom(f)
  \/ Reset
  \/ \E k \in PRESSED_KEYS : KeyDown(k)
  \/ \E k \in PRESSED_KEYS : KeyUp(k)
  \/ UpdateGui

EmuNext ==
  \/ LoopCheck
  \/ CycleSkip
  \/ ExecuteCycle
  \/ TimerSkip
  \/ TimerUpdate

Next == GuiNext \/ EmuNext

Spec == Init /\ [][Next]_vars

(***************************************************************************)
(* The two threads statement by statement (ConcSpec): the GUI thread's     *)
(* handlers and _execute_cycle are cut where the other thread can run      *)
(* between two of their statements.  gpc is the statement the handler in   *)
(* progress is at, epc that of the emulation thread.                       *)
(***************************************************************************)
CONC_FILES == {"wait"}

\* _load_rom up to and including the first half of its call of _reset; a
\* file that cannot be opened raises before the call.
CLoadRom(f) ==
  /\ gpc = "idle"
  /\ IF f = CANCELLED
       THEN UNCHANGED << v, I, pc, stack, delay_timer, sound_timer, keys,
                         key_wait, gui_locals >>
     ELSE IF f = UNREADABLE
       THEN /\ gpc' = "load_failed"
            /\ UNCHANGED << v, I, pc, stack, delay_timer, sound_timer, keys,
                            key_wait, filepath, load_i >>
     ELSE /\ ResetRegs
          /\ gpc' = "reset_screen"
          /\ filepath' = f
          /\ UNCHANGED load_i
  /\ UNCHANGED << memory, display_buffer, draw_flag, running, rom_loaded,
                  canvas, title, emu_locals >>

\* _reset from the menu, its first half.
CReset ==
  /\ gpc = "idle"
  /\ ResetRegs
  /\ gpc' = "reset_screen"
  /\ UNCHANGED << memory, display_buffer, draw_flag, running, rom_loaded,
                  canvas, title, emu_locals, filepath, load_i >>

\* _reset, its second half; then back to the menu or on to the copy loop.
CResetScreen ==
  /\ gpc = "reset_screen"
  /\ ResetScreen
  /\ gpc' = IF filepath = CANCELLED THEN "idle" ELSE "copy"
  /\ UNCHANGED << memory, v, I, pc, stack, delay_timer, sound_timer, keys,
                  key_wait, rom_loaded, canvas, title, emu_locals, filepath,
                  load_i >>

\* One iteration of the copy loop of _load_rom.
CLoadCopy ==
  /\ gpc = "copy"
  /\ load_i < Len(RomBytes(filepath))
  /\ IF PROG_START + load_i < MEM_SIZE
       THEN /\ memory' = [memory EXCEPT ![PROG_START + load_i + 1] =
                                          RomBytes(filepath)[load_i + 1]]
            /\ load_i' = load_i + 1
            /\ UNCHANGED gpc
       ELSE /\ gpc' = "load_failed"
            /\ UNCHANGED << memory, load_i >>
  /\ UNCHANGED << v, I, pc, stack, delay_timer, sound_timer, display_buffer,
                  draw_flag, keys, key_wait, running, rom_loaded, canvas,
                  title, emu_locals, filepath >>

\* After the loop: rom_loaded = True; running = True; the title.
CLoadDone ==
  /\ gpc = "copy"
  /\ load_i >= Len(RomBytes(filepath))
  /\ rom_loaded' = TRUE
  /\ running' = TRUE
  /\ title' = filepath
  /\ gpc' = "idle"
  /\ filepath' = CANCELLED
  /\ load_i' = 0
  /\ UNCHANGED << memory, v, I, pc, stack, delay_timer, sound_timer,
                  display_buffer, draw_flag, keys, key_wait, canvas,
                  emu_locals >>

\* The except branch of _load_rom.
CLoadFailed ==
  /\ gpc = "load_failed"
  /\ running' = FALSE
  /\ rom_loaded' = FALSE
  /\ gpc' = "idle"
  /\ filepath' = CANCELLED
  /\ load_i' = 0
  /\ UNCHANGED << memory, v, I, pc, stack, delay_timer, sound_timer,
                  display_buffer, draw_flag, keys, key_wait, canvas, title,
                  emu_locals >>

\* _key_down up to key_wait = -1.
CKeyDown(k) ==
  /\ gpc = "idle"
  /\ keys' = [keys EXCEPT ![k] = 1]
  /\ IF key_wait # NO_WAIT
       THEN /\ v' = [v EXCEPT ![key_wait] = k]
            /\ key_wait' = NO_WAIT
            /\ gpc' = "key_resume"
       ELSE UNCHANGED << v, key_wait, gpc >>
  /\ UNCHANGED << memory, I, pc, stack, delay_timer, sound_timer,
                  display_buffer, draw_flag, running, rom_loaded, canvas,
                  title, emu_locals, filepath, load_i >>

\* _key_down, its last statement: running = True.
CKeyResume ==
  /\ gpc = "key_resume"
  /\ running' = TRUE
  /\ gpc' = "idle"
  /\ UNCHANGED << memory, v, I, pc, stack, delay_timer, sound_timer,
                  display_buffer, draw_flag, keys, key_wait, rom_loaded,
                  canvas, title, emu_locals, filepath, load_i >>

\* _update_gui: the test of draw_flag.
CUpdateGui ==
  /\ gpc = "idle"
  /\ gpc' = IF draw_flag THEN "draw" ELSE "idle"
  /\ UNCHANGED << vm_vars, rom_loaded, canvas, title, emu_locals, filepath,
                  load_i >>

\* _update_gui: the call of _draw_screen.
CDrawScreen ==
  /\ gpc = "draw"
  /\ canvas' = DrawScreen
  /\ gpc' = "clear_flag"
  /\ UNCHANGED << vm_vars, rom_loaded, title, emu_locals, filepath, load_i >>

\* _update_gui: draw_flag = False.
CClearFlag ==
  /\ gpc = "clear_flag"
  /\ draw_flag' = FALSE
  /\ gpc' = "idle"
  /\ UNCHANGED << memory, v, I, pc, stack, delay_timer, sound_timer,
                  display_buffer, keys, key_wait, running, rom_loaded,
                  canvas, title, emu_locals, filepath, load_i >>

\* _execute_cycle: the fetch and pc += 2.
CFetch ==
  /\ epc = "cycle"
  /\ LET s == Fetch(VM)
     IN  /\ pc' = s.pc
         /\ opcode' = s.opcode
         /\ epc' = IF s.err THEN "dead" ELSE "exec"
  /\ UNCHANGED << memory, v, I, stack, delay_timer, sound_timer,
                  display_buffer, draw_flag, keys, key_wait, running,
                  rom_loaded, canvas, title, gui_locals >>

IsWaitKey(op) == OpType(op) = 15 /\ OpKK(op) = \h0A

\* _execute_cycle: the branch of the opcode fetched; of Fx0A, its first
\* statement, key_wait = x.
CExecute ==
  /\ epc = "exec"
  /\ IF IsWaitKey(opcode)
       THEN /\ key_wait' = OpX(opcode)
            /\ epc' = "fx0a"
            /\ UNCHANGED << memory, v, I, pc, stack, delay_timer,
                            sound_timer, display_buffer, draw_flag, keys,
                            running, opcode >>
       ELSE \E rnd \in RANDOM_BYTES :
              LET s == Execute(VM, rnd)
              IN  /\ Commit(s)
                  /\ epc' = IF s.err THEN "dead" ELSE "timers"
                  /\ opcode' = 0
  /\ UNCHANGED << rom_loaded, canvas, title, gui_locals >>

\* Fx0A, its second statement: running = False.
CStopRunning ==
  /\ epc = "fx0a"
  /\ running' = FALSE
  /\ epc' = "timers"
  /\ opcode' = 0
  /\ UNCHANGED << memory, v, I, pc, stack, delay_timer, sound_timer,
                  display_buffer, draw_flag, keys, key_wait, rom_loaded,
                  canvas, title, gui_locals >>

GuiStart ==
  \/ \E f \in CONC_FILES \cup {CANCELLED, UNREADABLE} : CLoadRom(f)
  \/ CReset
  \/ \E k \in PRESSED_KEYS : CKeyDown(k)
  \/ \E k \in PRESSED_KEYS : KeyUp(k)
  \/ CUpdateGui

\* The statements of a handler that has begun.
GuiContinue ==
  \/ CResetScreen
  \/ CLoadCopy
  \/ CLoadDone
  \/ CLoadFailed
  \/ CKeyResume
  \/ CDrawScreen
  \/ CClearFlag

EmuStep ==
  \/ LoopCheck
  \/ CycleSkip
  \/ CFetch
  \/ CExecute
  \/ CStopRunning
  \/ TimerSkip
  \/ TimerUpdate

ConcNext == GuiStart \/ GuiContinue \/ EmuStep

ConcSpec == Init /\ [][ConcNext]_vars

(***************************************************************************)
(* Properties of the handlers run one at a time (Spec).                    *)
(***************************************************************************)
Waiting == key_wait # NO_WAIT
StepInFlight == epc \in {"exec", "fx0a"}
HandlerInProgress == gpc # "idle"

TooLarge(f) == Len(RomBytes(f)) > MEM_SIZE - PROG_START

\* C1: loading a ROM longer than 4096 - 0x200 bytes leaves the VM as it
\* was: memory, the registers, the stack, the timers, the framebuffer and
\* the loaded/running status are unchanged by the load.
C1_TooLargeLoadChangesNothing ==
  [][ (\E f \in ROM_FILES : TooLarge(f) /\ LoadRom(f))
        => UNCHANGED << memory, v, I, pc, stack, delay_timer, sound_timer,
                        display_buffer, rom_loaded, running >> ]_vars

\* C6: while the wait latch is set neither timer is decremented.
C6_TimersFrozenWhileWaiting ==
  [][ (Waiting /\ Waiting')
        => (delay_timer' = delay_timer /\ sound_timer' = sound_timer) ]_vars

\* C7: no instruction ends the emulation thread.
C7_EmulationNeverTerminates == epc # "dead"

FontIntact == SubSeq(memory, 1, 80) = FONTSET

\* The addresses a load of rom_data writes: 0x200 .. 0x200 + L - 1, as far
\* as memory reaches.
LoadedLength(rom_data) ==
  IF Len(rom_data) <= 4096 - 512 THEN Len(rom_data) ELSE 4096 - 512

LoadWritesOnlyProgram(f) ==
  LET L == LoadedLength(RomBytes(f))
  IN  /\ SubSeq(memory', 1, 512) = SubSeq(memory, 1, 512)
      /\ SubSeq(memory', 513, 512 + L) = SubSeq(RomBytes(f), 1, L)
      /\ SubSeq(memory', 513 + L, 4096) = SubSeq(memory, 513 + L, 4096)

\* C9: a load of a ROM of length L writes the ROM's bytes, in order, to
\* 0x200 .. 0x200+L-1 and changes no other byte; a reset changes none; and
\* with programs that store nothing below 0x200, addresses 0x000-0x04F hold
\* the font in every state.
C9_LoadWritesProgramAreaOnly ==
  /\ []FontIntact
  /\ [][ /\ \A f \in ROM_FILES : LoadRom(f) => LoadWritesOnlyProgram(f)
         /\ Reset => memory' = memory ]_vars

\* C9 witness: "main" loaded over what the too-large file left: its bytes
\* at 0x200, the other file's bytes behind them, the font below.
C9_Witness ==
  /\ title = "main" /\ rom_loaded
  /\ SubSeq(memory, 513, 512 + Len(RomMain)) = RomMain
  /\ Byte(memory, 512 + Len(RomMain)) = 171
  /\ FontIntact

(***************************************************************************)
(* Properties of the two threads interleaved (ConcSpec).                   *)
(***************************************************************************)
\* C2: a key press that resolves the wait of Fx0A leaves the VM stepping:
\* with a ROM loaded, no state has the pressed key delivered to a register
\* and the VM stopped with no latch left for a later key press to resolve.
C2_KeyPressLeavesVMStepping ==
  ~ ( /\ rom_loaded
      /\ ~running
      /\ ~Waiting
      /\ ~StepInFlight
      /\ ~HandlerInProgress
      /\ \E x \in 0 .. 14 : v[x] \in PRESSED_KEYS )

\* C3: from the end of the step that executed Fx0A, and for as long as the
\* wait latch stays set, no step changes pc, V0-VF, I, memory, the stack or
\* the framebuffer.
C3_NoInstructionWhileWaiting ==
  [][ (Waiting /\ ~StepInFlight /\ Waiting')
        => UNCHANGED << pc, v, I, memory, stack, display_buffer >> ]_vars

\* C4: whenever the framebuffer differs from what the consumer drew last,
\* the dirty flag is set.
C4_DirtyWhenUnrendered == (display_buffer # canvas) => draw_flag

Transient == << v, I, pc, stack, delay_timer, sound_timer, display_buffer,
                key_wait >>

\* C5: a step whose opcode was fetched before a reset put pc back to 0x200
\* ends in a state of one of the two orders: the reset state itself (the
\* step came first), or the reset state after one whole step, fetched at
\* 0x200.
C5_ResetAtomicWithStep ==
  [][ (epc = "exec" /\ epc' # "exec" /\ pc = PROG_START)
        => \/ UNCHANGED Transient
           \/ \E rnd \in RANDOM_BYTES :
                LET s == ExecuteCycleOf(VM, rnd)
                IN  << v', I', pc', stack', delay_timer', sound_timer',
                       display_buffer', key_wait' >>
                      = << s.v, s.I, s.pc, s.stack, s.delay_timer,
                           s.sound_timer, s.display_buffer, s.key_wait >>
    ]_vars

\* A load is between the state clearing at its start and the statements
\* after its copy loop.
LoadInProgress == filepath # CANCELLED /\ gpc \in {"reset_screen", "copy"}

\* C16: while a load is between its state clearing and the end of its copy
\* loop, the emulation thread fetches and executes no instruction.
C16_NoInstructionDuringLoad ==
  [][ LoadInProgress => ~(CFetch \/ CExecute) ]_vars

\* C19: with a ROM loaded, no step in flight and no handler in progress,
\* the VM is either running with the latch inactive or stopped with the
\* latch naming a register.
C19_StoppedOnlyWhileWaiting ==
  (rom_loaded /\ ~StepInFlight /\ ~HandlerInProgress)
    => \/ running /\ key_wait = NO_WAIT
       \/ ~running /\ key_wait \in 0 .. 15

(***************************************************************************)
(* The register instructions on their own (AluSpec): the emulation thread  *)
(* running a program LD Vx,a; LD Vy,b; 8xy<op>; JP 0x206 that has just     *)
(* been loaded, for the registers, operands and operations below.          *)
(***************************************************************************)
ALU_X == {0, 1, 14, 15}
ALU_Y == {0, 1, 15}
ALU_OPS == {4, 5, 6, 7, 14}
BYTE_VALUES == {0, 1, 5, 10, 128, 255}

AluProgram(x, y, a, b, op) ==
  << 96 + x, a, 96 + y, b, 128 + x, 16 * y + op, 18, 6 >>

InitAlu ==
  /\ \E x \in ALU_X, y \in ALU_Y, a \in BYTE_VALUES, b \in BYTE_VALUES,
        op \in ALU_OPS :
       memory = CopyRom(LoadFontset, AluProgram(x, y, a, b, op))
  /\ v = [r \in 0 .. (NUM_REGS - 1) |-> 0]
  /\ I = 0
  /\ pc = PROG_START
  /\ stack = << >>
  /\ delay_timer = 0
  /\ sound_timer = 0
  /\ display_buffer = BlankScreen
  /\ draw_flag = TRUE
  /\ keys = [k \in 0 .. (NUM_KEYS - 1) |-> 0]
  /\ key_wait = NO_WAIT
  /\ running = TRUE
  /\ rom_loaded = TRUE
  /\ canvas = BlankScreen
  /\ title = "alu"
  /\ epc = "loop"
  /\ opcode = 0
  /\ gpc = "idle"
  /\ filepath = CANCELLED
  /\ load_i = 0

AluSpec == InitAlu /\ [][EmuNext]_vars

\* The instruction at pc is 8xy<op>.
AtAlu(op) == Byte(memory, pc) \div 16 = 8 /\ Byte(memory, pc + 1) % 16 = op
AtX == Byte(memory, pc) % 16
AtY == Byte(memory, pc + 1) \div 16

ExampleLoaded == SubSeq(memory, 513, 518) = << 96, 5, 97, 10, 128, 20 >>

\* C10: for x in 0..E and any y, a step that executes 8xy4 leaves
\* Vx = (Vx + Vy) mod 256 and VF = 1 if the sum exceeded 255, else 0, both
\* from the values before the step, and pc two further; and the program
\* 60 05 61 0A 80 14, three steps after its load (pc = 0x206), has V0 = 15
\* and VF = 0.
C10_AddSetsSumAndCarry ==
  /\ [] ((ExampleLoaded /\ pc = 518) => (v[0] = 15 /\ v[15] = 0))
  /\ [][ (ExecuteCycle /\ AtAlu(4) /\ AtX # 15)
           => /\ v'[AtX] = (v[AtX] + v[AtY]) % 256
              /\ v'[15] = IF v[AtX] + v[AtY] > 255 THEN 1 ELSE 0
              /\ pc' = pc + 2 ]_vars

\* C10 witness: 8EF4 has run with VE = 255 and VF = 1: VE = 0, VF = 1.
C10_Witness ==
  /\ Byte(memory, 516) = 142 /\ Byte(memory, 517) = 244
  /\ Byte(memory, 513) = 255 /\ Byte(memory, 515) = 1
  /\ pc = 518
  /\ v[14] = 0 /\ v[15] = 1

\* The flag of 8xy<op> for the operand values vx and vy: carry, no borrow,
\* the bit shifted out.
AluFlag(op, vx, vy) ==
  CASE op = 4 -> IF vx + vy > 255 THEN 1 ELSE 0
    [] op = 5 -> IF vx > vy THEN 1 ELSE 0
    [] op = 6 -> vx % 2
    [] op = 7 -> IF vy > vx THEN 1 ELSE 0
    [] op = 14 -> vx \div 128

\* C17: for every x and y, x = F included, a step that executes 8xy4,
\* 8xy5, 8xy6, 8xy7 or 8xyE ends with VF equal to the instruction's flag,
\* taken from the values Vx and Vy had before the step.
C17_FlagIsWrittenLast ==
  [][ \A op \in {4, 5, 6, 7, 14} :
        (ExecuteCycle /\ AtAlu(op))
          => v'[15] = AluFlag(op, v[AtX], v[AtY]) ]_vars

SubExampleLoaded == SubSeq(memory, 513, 518) = << 96, 5, 97, 10, 128, 21 >>

\* C18: for x in 0..E and every y, a step that executes 8xy5 leaves
\* Vx = (Vx - Vy) mod 256 and VF = 1 exactly if Vx > Vy, and one that
\* executes 8xy7 leaves Vx = (Vy - Vx) mod 256 and VF = 1 exactly if
\* Vy > Vx, all from the values before the step; V0 = 5, V1 = 10 and 8015
\* give V0 = 0xFB, VF = 0.
C18_SubUsesOperandsBeforeStep ==
  /\ [] ((SubExampleLoaded /\ pc = 518) => (v[0] = 251 /\ v[15] = 0))
  /\ [][ (ExecuteCycle /\ AtAlu(5) /\ AtX # 15)
           => /\ v'[AtX] = (v[AtX] - v[AtY]) % 256
              /\ v'[15] = IF v[AtX] > v[AtY] THEN 1 ELSE 0 ]_vars
  /\ [][ (ExecuteCycle /\ AtAlu(7) /\ AtX # 15)
           => /\ v'[AtX] = (v[AtY] - v[AtX]) % 256
              /\ v'[15] = IF v[AtY] > v[AtX] THEN 1 ELSE 0 ]_vars

(***************************************************************************)
(* The instructions on their own (InstrSpec): the emulation thread running *)
(* a program that has just been loaded, for the programs below.            *)
(***************************************************************************)
\* LD Vx,a; LD Vy,b; LD I,i; DRW Vx,Vy,n; DRW Vx,Vy,n; JP 0x20A (itself).
DRAW_X == {0, 15}
DRAW_Y == {1, 15}
DRAW_COLS == {0, 60, 62, 127}
DRAW_ROWS == {0, 30, 63}
DRAW_I == {0, 5, 513, 4094}
DRAW_N == {0, 1, 5}

DrawProgram(x, y, a, b, i, n) ==
  << 96 + x, a, 96 + y, b, 160 + (i \div 256), i % 256,
     208 + x, 16 * y + n, 208 + x, 16 * y + n, 18, 10 >>

DrawRoms ==
  { DrawProgram(x, y, a, b, i, n) :
      x \in DRAW_X, y \in DRAW_Y, a \in DRAW_COLS, b \in DRAW_ROWS,
      i \in DRAW_I, n \in DRAW_N }

\* LD V0,10; LD DT,V0; LD ST,V0; JP 0x206 (itself).
RomTimer == << 96, 10, 240, 21, 240, 24, 18, 6 >>

\* 0x200 CALL 0x208; 0x202 RET; 0x204 JP 0x204; 0x206 0000; 0x208 CALL 0x20C;
\* 0x20A RET; 0x20C CALL 0x210; 0x20E RET; 0x210 RET.
RomCalls == << 34, 8, 0, 238, 18, 4, 0, 0, 34, 12, 0, 238, 34, 16, 0, 238,
               0, 238 >>

\* LD V0,7; LD DT,V0; LD I,5; DRW V0,V0,5; RET; JP 0x20A (itself).
RomRet == << 96, 7, 240, 21, 160, 5, 208, 5, 0, 238, 18, 10 >>

\* 0x200 LD V0,7; LD DT,V0; LD I,5; DRW V0,V0,5; CALL 0x20C; JP 0x20A;
\* 0x20C 0123; 8008; 800F; E000; F000; F0FF; 9001; 5001;
\* 0x21C JP 0x21C; 0x21E JP 0x21E.
RomUnknown == << 96, 7, 240, 21, 160, 5, 208, 5, 34, 12, 18, 10,
                 1, 35, 128, 8, 128, 15, 224, 0, 240, 0, 240, 255,
                 144, 1, 80, 1, 18, 28, 18, 30 >>

INSTR_ROMS == DrawRoms \cup {RomTimer, RomCalls, RomRet, RomUnknown}

\* The state a successful load of rom_data from the constructed emulator
\* leaves.
AfterLoad(rom_data) ==
  /\ memory = CopyRom(LoadFontset, rom_data)
  /\ v = [r \in 0 .. (NUM_REGS - 1) |-> 0]
  /\ I = 0
  /\ pc = PROG_START
  /\ stack = << >>
  /\ delay_timer = 0
  /\ sound_timer = 0
  /\ display_buffer = BlankScreen
  /\ draw_flag = TRUE
  /\ keys = [k \in 0 .. (NUM_KEYS - 1) |-> 0]
  /\ key_wait = NO_WAIT
  /\ running = TRUE
  /\ rom_loaded = TRUE
  /\ canvas = BlankScreen
  /\ title = "rom"
  /\ epc = "loop"
  /\ opcode = 0
  /\ gpc = "idle"
  /\ filepath = CANCELLED
  /\ load_i = 0

InitInstr == \E rom_data \in INSTR_ROMS : AfterLoad(rom_data)

InstrSpec == InitInstr /\ [][EmuNext]_vars

\* The opcode at pc, the one the next step fetches.
AtOpcode == Byte(memory, pc) * 256 + Byte(memory, pc + 1)
AtDraw == OpType(AtOpcode) = 13

Min(a, b) == IF a < b THEN a ELSE b

\* C11: the framebuffer is 64x32 cells of value 0 or 1 in every state, and
\* a step that executes Dxyn changes only cells (px, py) with
\* start_x <= px < min(start_x + 8, 64) and start_y <= py < min(start_y + n,
\* 32), where start = (Vx mod 64, Vy mod 32) is read after VF is cleared:
\* no cell of a column or row beyond the edge, wrapped or not, changes.
C11_DrawClipsAtEdges ==
  /\ [] /\ DOMAIN display_buffer = 0 .. (64 * 32 - 1)
        /\ \A p \in 0 .. (64 * 32 - 1) : display_buffer[p] \in {0, 1}
  /\ [][ (ExecuteCycle /\ AtDraw)
           => LET cleared == [v EXCEPT ![15] = 0]
                  start_x == cleared[OpX(AtOpcode)] % 64
                  start_y == cleared[OpY(AtOpcode)] % 32
                  n == OpN(AtOpcode)
              IN  \A p \in 0 .. (64 * 32 - 1) :
                    display_buffer'[p] # display_buffer[p]
                      => /\ start_x <= p % 64
                         /\ p % 64 < Min(start_x + 8, 64)
                         /\ start_y <= p \div 64
                         /\ p \div 64 < Min(start_y + n, 32) ]_vars

\* C11 witness: the glyph of 0 (F0 90 90 90 F0) drawn once at (62, 30): its
\* two visible columns of its two visible rows are drawn, and nothing at
\* column 0 or in row 0.
C11_Witness ==
  /\ pc = 520 /\ v[0] = 62 /\ v[1] = 30 /\ I = 0
  /\ OpN(AtOpcode) = 5
  /\ display_buffer[62 + 30 * 64] = 1 /\ display_buffer[63 + 30 * 64] = 1
  /\ display_buffer[62 + 31 * 64] = 1 /\ display_buffer[63 + 31 * 64] = 0
  /\ display_buffer[0 + 30 * 64] = 0 /\ display_buffer[0 + 31 * 64] = 0
  /\ display_buffer[62] = 0 /\ display_buffer[63] = 0
  /\ v[15] = 0

\* The sprite of the two DRW of the program at 0x206 and 0x208: its n bytes
\* at I, and where its top-left corner goes.
SpriteN == OpN(Byte(memory, 518) * 256 + Byte(memory, 519))
SpriteStartX == [v EXCEPT ![15] = 0][Byte(memory, 518) % 16] % 64
SpriteStartY == [v EXCEPT ![15] = 0][Byte(memory, 519) \div 16] % 32

\* Some bit of the n bytes is set.
NonEmptySprite ==
  \E row \in 0 .. (SpriteN - 1) :
    I + row < 4096 /\ Byte(memory, I + row) # 0

\* Some set bit of the sprite falls on the screen.
VisibleSprite ==
  \E row \in 0 .. (SpriteN - 1), col \in 0 .. 7 :
    /\ I + row < 4096
    /\ Bit(Byte(memory, I + row), 7 - col) = 1
    /\ SpriteStartX + col < 64
    /\ SpriteStartY + row < 32

\* The program loaded is one of DrawRoms: the same DRW at 0x206 and 0x208,
\* then JP 0x20A.
DrawLoaded ==
  /\ Byte(memory, 518) \div 16 = 13
  /\ SubSeq(memory, 521, 522) = SubSeq(memory, 519, 520)
  /\ SubSeq(memory, 523, 524) = << 18, 10 >>

AfterFirstDraw == DrawLoaded /\ pc = 520 /\ epc # "dead"
AfterSecondDraw == DrawLoaded /\ pc = 522

\* C12 as stated: a sprite with a set bit, drawn twice at the same place on
\* the blank framebuffer: VF = 0 after the first DRW, VF = 1 after the
\* second, and the framebuffer blank again.
C12_SecondDrawCollides ==
  /\ (AfterFirstDraw /\ NonEmptySprite) => v[15] = 0
  /\ (AfterSecondDraw /\ NonEmptySprite)
       => (v[15] = 1 /\ display_buffer = BlankScreen)

\* C12 amended: a sprite with a set bit that falls on the screen, drawn
\* twice at the same place on the blank framebuffer: VF = 0 after the first
\* DRW, VF = 1 after the second, and the framebuffer blank again; a sprite
\* whose set bits are all clipped draws nothing and leaves VF = 0 both
\* times.
C12_SecondVisibleDrawCollides ==
  /\ AfterFirstDraw => v[15] = 0
  /\ AfterSecondDraw => display_buffer = BlankScreen
  /\ (AfterSecondDraw /\ VisibleSprite) => v[15] = 1
  /\ (AfterSecondDraw /\ ~VisibleSprite) => v[15] = 0

\* C12 witness: the glyph of 0 drawn twice at (62, 30), clipped to three
\* cells: VF = 1 and the framebuffer is blank.
C12_Witness ==
  /\ AfterSecondDraw /\ VisibleSprite
  /\ v[0] = 62 /\ v[1] = 30 /\ I = 0 /\ SpriteN = 5
  /\ v[15] = 1
  /\ display_buffer = BlankScreen
  /\ draw_flag

AtRet == AtOpcode = \h00EE
AtCall == OpType(AtOpcode) = 2

\* C14: a step that executes 00EE with the stack empty leaves the stack
\* empty, pc at the address of the RET plus 2, and V0-VF, I, memory, the
\* timers, the framebuffer, the keys, the latch and running as they were;
\* the emulation thread goes on.
C14_RetOnEmptyStackIsNoOp ==
  [][ (ExecuteCycle /\ AtRet /\ stack = << >>)
        => /\ pc' = pc + 2
           /\ stack' = << >>
           /\ UNCHANGED << v, I, memory, delay_timer, sound_timer,
                           display_buffer, draw_flag, keys, key_wait,
                           running >>
           /\ running'
           /\ epc' = "timers" ]_vars

\* C14 witness: the RET at 0x208 of RomRet has run with the stack empty:
\* pc = 0x20A, and V0, I and the glyph drawn are still there.
C14_Witness ==
  /\ SubSeq(memory, 513, 512 + Len(RomRet)) = RomRet
  /\ pc = 522 /\ epc = "timers"
  /\ stack = << >>
  /\ v[0] = 7 /\ I = 5 /\ display_buffer # BlankScreen
  /\ running

CallsLoaded == SubSeq(memory, 513, 512 + Len(RomCalls)) = RomCalls

\* C15: a step that executes 2nnn at address a appends a + 2 to the stack
\* and sets pc = nnn; a step that executes 00EE with an entry on the stack
\* sets pc to the last entry and removes it; and in the program of three
\* nested calls every RET returns behind its CALL with the stack the CALL
\* found.
C15_CallRetLastInFirstOut ==
  /\ [][ (ExecuteCycle /\ AtCall)
           => /\ stack' = Append(stack, pc + 2)
              /\ pc' = OpNNN(AtOpcode) ]_vars
  /\ [][ (ExecuteCycle /\ AtRet /\ stack # << >>)
           => /\ pc' = stack[Len(stack)]
              /\ Append(stack', pc') = stack ]_vars
  /\ [] (CallsLoaded =>
           /\ pc \in {512, 514, 516} => stack = << >>
           /\ pc \in {520, 522} => stack = << 514 >>
           /\ pc \in {524, 526} => stack = << 514, 522 >>
           /\ pc = 528 => stack = << 514, 522, 526 >>)

\* C15 witness: the RET at 0x210 has returned to 0x20E, behind the CALL at
\* 0x20C, with the two entries of the outer calls on the stack.
C15_Witness ==
  /\ CallsLoaded
  /\ pc = 526 /\ epc = "timers"
  /\ stack = << 514, 522 >>

\* The opcodes the branches of _execute_cycle are written for, as their
\* comments name them: 00E0, 00EE, 1nnn .. 4xkk, 5xy0, 6xkk, 7xkk, 8xy0 ..
\* 8xy7, 8xyE, 9xy0, Annn .. Dxyn, Ex9E, ExA1, Fx07 .. Fx65.
InBaseTable(op) ==
  LET t == OpType(op)
  IN  \/ op \in {\h00E0, \h00EE}
      \/ t \in {1, 2, 3, 4, 6, 7, 10, 11, 12, 13}
      \/ t \in {5, 9} /\ OpN(op) = 0
      \/ t = 8 /\ OpN(op) \in {0, 1, 2, 3, 4, 5, 6, 7, 14}
      \/ t = 14 /\ OpKK(op) \in {\h9E, \hA1}
      \/ t = 15 /\ OpKK(op) \in {\h07, \h0A, \h15, \h18, \h1E, \h29, \h33,
                                 \h55, \h65}

\* C20: a step that executes an opcode outside the table moves pc by
\* exactly +2 and changes nothing else: not V0-VF, I, memory, the stack,
\* the timers, the keys, the latch, the framebuffer, the dirty flag or
\* running.
C20_UnknownOpcodeIsNoOp ==
  [][ (ExecuteCycle /\ ~InBaseTable(AtOpcode))
        => /\ pc' = pc + 2
           /\ UNCHANGED << v, I, memory, stack, delay_timer, sound_timer,
                           keys, key_wait, display_buffer, draw_flag,
                           running >> ]_vars

(***************************************************************************)
(* The timer block of _emulation_loop statement by statement, beside a     *)
(* reset from the menu (TimerSpec): each "if timer > 0" and the decrement  *)
(* it guards are two statements, and _reset can run between them.  The     *)
(* program sets both timers to 10 and then writes them no more.            *)
(***************************************************************************)
InitTimer == AfterLoad(RomTimer)

\* if self.delay_timer > 0:
CTestDelay ==
  /\ epc = "timers"
  /\ epc' = IF delay_timer > 0 THEN "dec_delay" ELSE "test_sound"
  /\ UNCHANGED << vm_vars, rom_loaded, canvas, title, opcode, gui_locals >>

\* self.delay_timer -= 1
CDecDelay ==
  /\ epc = "dec_delay"
  /\ delay_timer' = delay_timer - 1
  /\ epc' = "test_sound"
  /\ UNCHANGED << memory, v, I, pc, stack, sound_timer, display_buffer,
                  draw_flag, keys, key_wait, running, rom_loaded, canvas,
                  title, opcode, gui_locals >>

\* if self.sound_timer > 0:
CTestSound ==
  /\ epc = "test_sound"
  /\ epc' = IF sound_timer > 0 THEN "dec_sound" ELSE "loop"
  /\ UNCHANGED << vm_vars, rom_loaded, canvas, title, opcode, gui_locals >>

\* self.sound_timer -= 1
CDecSound ==
  /\ epc = "dec_sound"
  /\ sound_timer' = sound_timer - 1
  /\ epc' = "loop"
  /\ UNCHANGED << memory, v, I, pc, stack, delay_timer, display_buffer,
                  draw_flag, keys, key_wait, running, rom_loaded, canvas,
                  title, opcode, gui_locals >>

TimerNext ==
  \/ LoopCheck
  \/ CycleSkip
  \/ CFetch
  \/ CExecute
  \/ TimerSkip
  \/ CTestDelay
  \/ CDecDelay
  \/ CTestSound
  \/ CDecSound
  \/ CReset
  \/ CResetScreen

TimerSpec == InitTimer /\ [][TimerNext]_vars

TimersInRange == delay_timer \in 0 .. 255 /\ sound_timer \in 0 .. 255

\* C13: both timers are within 0..255 in every state, and a tick takes 1
\* from a timer only when that timer is not 0: a timer at 0 stays at 0 and
\* never becomes negative.
C13_TimersCountDownToZero ==
  /\ []TimersInRange
  /\ [][ /\ CDecDelay => delay_timer > 0
         /\ CDecSound => sound_timer > 0 ]_vars

=============================================================================
